---- MODULE Spec2Model ----
(***************************************************************************)
(* Model of RgbdSlamNode (orb_slam3_ros2_wrapper/src/rgbd/rgbd-slam-node). *)
(* Every callback of the node is a thread of control with its own program  *)
(* counter; the executor may run them concurrently.  The shared cell is    *)
(* (latestTime_, tfMapOdom_), the lock is latestTimeMutex_.                *)
(*                                                                         *)
(* An odometry message is identified by its sequence number k >= 1: its    *)
(* header stamp is k, and the transform the engine derives from it has     *)
(* translation k and rotation k.  0 is the value the cell holds before any *)
(* odometry message.  A pose Tcw returned by tracking frame f is -f.       *)
(***************************************************************************)
EXTENDS Integers, FiniteSets, Sequences, TLC

\* Bounds of the model.
MaxOdom == 2        \* odometry messages delivered
MaxTracks == 2      \* successful tracking calls
MaxKf == 2          \* keyframe ids a request may name (0 = no restriction)
MaxStamp == 2       \* header stamps a lidar message may carry (1..MaxStamp)
MaxMsgs == 12       \* messages sent on each image channel
MaxLost == 2        \* image messages lost before they reach the node

VARIABLES
    latestTimeMutex_,  \* "none" or the callback that holds the lock
    latestTime_,       \* stamp of the last odometry message
    tfMapOdom_,        \* [translation, rotation] stored by the odometry path
    isTracked_,        \* tracking flag
    rosViz_,           \* parameter ros_visualization, read once at startup
    pcOdom, odomSeq,   \* OdomCallback: position, messages delivered so far
    pcRgbd, rgbd,      \* RGBDCallback: position, locals of this invocation
    nSuccess,          \* successful tracking calls (the engine's map state)
    nBroadcast,        \* messages sent on the transform-broadcast channel
    pcTrav, trav,      \* publishTraversabilityData: position, locals
    pcMap, mapTick,    \* publishMapData: position, locals
    pcSrv, srv,        \* getMapServer: position, request/locals/response
    pcImu, imu,        \* ImuCallback: position, locals
    pcLidar, lidar,    \* LidarCallback: position, locals
    pcDtor,            \* ~RgbdSlamNode: the next statement of the destructor
    nullCall,          \* callback that called into a released interface_
    rgbQ, depthQ,      \* synchronizer: buffered messages of the two channels
    rgbSeq, depthSeq,  \* synchronizer: messages received on each channel
    sync               \* synchronizer: what the last arrival emitted

vars == <<latestTimeMutex_, latestTime_, tfMapOdom_, isTracked_, rosViz_,
          pcOdom, odomSeq, pcRgbd, rgbd, nSuccess, nBroadcast,
          pcTrav, trav, pcMap, mapTick, pcSrv, srv,
          pcImu, imu, pcLidar, lidar, pcDtor, nullCall,
          rgbQ, depthQ, rgbSeq, depthSeq, sync>>

odomVars == <<pcOdom, odomSeq>>
rgbdVars == <<pcRgbd, rgbd, nSuccess, nBroadcast>>
travVars == <<pcTrav, trav>>
mapVars == <<pcMap, mapTick>>
srvVars == <<pcSrv, srv>>
cellVars == <<latestTimeMutex_, latestTime_, tfMapOdom_>>
ingestVars == <<pcImu, imu, pcLidar, lidar>>
teardownVars == <<pcDtor, nullCall>>
syncVars == <<rgbQ, depthQ, rgbSeq, depthSeq, sync>>
\* What the callbacks above the sensor-ingestion section leave alone.
restVars == <<ingestVars, teardownVars, syncVars>>

----------------------------------------------------------------------------
\* Engine capability (ORBSLAM3Interface), an external collaborator.

\* Transform computed from odometry message k.
getMapToOdomTF(k) == [translation |-> k, rotation |-> k]

\* Pose returned by the f-th successful tracking call.
Tcw(f) == [translation |-> -f, rotation |-> -f]

\* Landmarks of the engine's map after n successful tracks: landmark i was
\* created by track i, belongs to keyframe ((i-1) % MaxKf) + 1, and is
\* currently tracked iff it was seen by the latest track.
Landmarks(n) == { [id |-> i, kf |-> ((i - 1) % MaxKf) + 1, tracked |-> (i = n)] : i \in 1..n }

\* Map snapshot: queryMapSnapshot(includeLandmarks, trackedOnly, keyframeId).
mapDataToMsg(n, includeLandmarks, trackedOnly, keyframeId) ==
    [ keyframes |-> n,
      landmarks |-> IF includeLandmarks
                    THEN { l \in Landmarks(n) :
                             /\ (trackedOnly => l.tracked)
                             /\ (keyframeId # 0 => l.kf = keyframeId) }
                    ELSE {} ]

NoMsg == [keyframes |-> 0, landmarks |-> {}]

\* Traversability snapshot after n successful tracks: map.first is the
\* occupancy grid, map.second the structured grid map.  The headers are the
\* engine's own: frame "engine", stamp -1 stand for whatever it put there.
getTraversabilityData(n) ==
    [ first  |-> [origin |-> [x |-> n, y |-> -n], frame_id |-> "engine", stamp |-> -1],
      second |-> [frame_id |-> "engine", stamp |-> -1] ]

NoGrid == [origin |-> [x |-> 0, y |-> 0], frame_id |-> "", stamp |-> 0]
NoGridMap == [frame_id |-> "", stamp |-> 0]

\* Parameters declared by the constructor, at their defaults.
global_frame_ == "map"
robot_x_ == 1
robot_y_ == 1

----------------------------------------------------------------------------
\* Locals of one RGBDCallback: the tracking result, the copy of tfMapOdom_
\* handed to the broadcaster, and what this invocation has emitted.
NoRgbd == [res |-> "none", tf |-> [translation |-> 0, rotation |-> 0],
           sent |-> 0, pclQueries |-> 0, pclPublished |-> 0]
\* Locals of one publishTraversabilityData: map (first, second), the stamp
\* read, and the messages published on the two grid channels.
NoTrav == [queried |-> FALSE, stamp |-> 0, seenTf |-> [translation |-> 0, rotation |-> 0],
           first |-> NoGrid, second |-> NoGridMap,
           gridPublished |-> 0, gridMapPublished |-> 0,
           outGrid |-> NoGrid, outGridMap |-> NoGridMap]
NoTick == [saw |-> FALSE, queries |-> 0, args |-> <<>>, published |-> 0]
NoSrv == [tracked_points |-> FALSE, kf_id_for_landmarks |-> 0, queries |-> 0,
          args |-> <<>>, mapDataMsg |-> NoMsg, response |-> NoMsg]

\* Locals of one ImuCallback / LidarCallback: engine calls made, and for
\* the lidar the stamp of the message and the stamp handed to the engine.
NoImu == [calls |-> 0]
NoLidar == [msgStamp |-> 0, calls |-> 0, engineStamp |-> 0]

\* The synchronizer's last arrival: pairs it emitted, the callbacks invoked
\* for them, the ids of the latest pair, and the message it dropped.
NoSync == [emitted |-> 0, callbacks |-> 0, lastRgb |-> -1, lastDepth |-> -1, dropped |-> 0, lost |-> 0]

Init ==
    /\ latestTimeMutex_ = "none"
    /\ latestTime_ = 0
    /\ tfMapOdom_ = [translation |-> 0, rotation |-> 0]
    /\ isTracked_ = FALSE
    /\ rosViz_ \in BOOLEAN
    /\ pcOdom = "idle" /\ odomSeq = 0
    /\ pcRgbd = "idle" /\ rgbd = NoRgbd
    /\ nSuccess = 0 /\ nBroadcast = 0
    /\ pcTrav = "idle" /\ trav = NoTrav
    /\ pcMap = "idle" /\ mapTick = NoTick
    /\ pcSrv = "idle" /\ srv = NoSrv
    /\ pcImu = "idle" /\ imu = NoImu
    /\ pcLidar = "idle" /\ lidar = NoLidar
    /\ pcDtor = "none" /\ nullCall = "none"
    /\ rgbQ = <<>> /\ depthQ = <<>> /\ rgbSeq = 0 /\ depthSeq = 0
    /\ sync = NoSync

----------------------------------------------------------------------------
\* OdomCallback

\* An odometry message arrives; the callback starts and asks for the lock.
OdomCallback_enter ==
    /\ pcOdom = "idle" /\ odomSeq < MaxOdom
    /\ odomSeq' = odomSeq + 1
    /\ pcOdom' = "lock"
    /\ UNCHANGED <<restVars, cellVars, isTracked_, rosViz_, rgbdVars, travVars, mapVars, srvVars>>

\* Variant: the callback does not take the lock.
OdomCallback_lock_unguarded ==
    /\ pcOdom = "lock"
    /\ pcOdom' = "stamp"
    /\ UNCHANGED <<restVars, cellVars, odomSeq, isTracked_, rosViz_, rgbdVars, travVars, mapVars, srvVars>>

\* std::lock_guard lock(latestTimeMutex_)
OdomCallback_lock ==
    /\ pcOdom = "lock" /\ latestTimeMutex_ = "none"
    /\ latestTimeMutex_' = "odom"
    /\ pcOdom' = "stamp"
    /\ UNCHANGED <<restVars, latestTime_, tfMapOdom_, odomSeq, isTracked_, rosViz_, rgbdVars, travVars, mapVars, srvVars>>

\* latestTime_ = msgOdom->header.stamp
OdomCallback_stamp ==
    /\ pcOdom = "stamp"
    /\ latestTime_' = odomSeq
    /\ pcOdom' = "translation"
    /\ UNCHANGED <<restVars, latestTimeMutex_, tfMapOdom_, odomSeq, isTracked_, rosViz_, rgbdVars, travVars, mapVars, srvVars>>

\* interface_->getMapToOdomTF(msgOdom, tfMapOdom_): the engine writes the
\* out-parameter in place, one component after the other.
OdomCallback_translation ==
    /\ pcOdom = "translation"
    /\ tfMapOdom_' = [tfMapOdom_ EXCEPT !.translation = getMapToOdomTF(odomSeq).translation]
    /\ pcOdom' = "rotation"
    /\ UNCHANGED <<restVars, latestTimeMutex_, latestTime_, odomSeq, isTracked_, rosViz_, rgbdVars, travVars, mapVars, srvVars>>

OdomCallback_rotation ==
    /\ pcOdom = "rotation"
    /\ tfMapOdom_' = [tfMapOdom_ EXCEPT !.rotation = getMapToOdomTF(odomSeq).rotation]
    /\ pcOdom' = "unlock"
    /\ UNCHANGED <<restVars, latestTimeMutex_, latestTime_, odomSeq, isTracked_, rosViz_, rgbdVars, travVars, mapVars, srvVars>>

\* Variant: the callback returns without releasing the lock.
OdomCallback_return_keepsLock ==
    /\ pcOdom = "unlock"
    /\ pcOdom' = "idle"
    /\ UNCHANGED <<restVars, cellVars, odomSeq, isTracked_, rosViz_, rgbdVars, travVars, mapVars, srvVars>>

\* return: the lock_guard releases the lock
OdomCallback_return ==
    /\ pcOdom = "unlock"
    /\ latestTimeMutex_' = IF latestTimeMutex_ = "odom" THEN "none" ELSE latestTimeMutex_
    /\ pcOdom' = "idle"
    /\ UNCHANGED <<restVars, latestTime_, tfMapOdom_, odomSeq, isTracked_, rosViz_, rgbdVars, travVars, mapVars, srvVars>>

OdomCallback ==
    \/ OdomCallback_enter
    \/ OdomCallback_lock
    \/ OdomCallback_stamp
    \/ OdomCallback_translation
    \/ OdomCallback_rotation
    \/ OdomCallback_return

----------------------------------------------------------------------------
\* RGBDCallback

\* Variant: the flag is assigned the tracking result instead of being set
\* only on success.
RGBDCallback_track_storesResult ==
    /\ pcRgbd = "idle"
    /\ \E ok \in {b \in BOOLEAN : b => nSuccess < MaxTracks} :
         /\ isTracked_' = ok
         /\ IF ok
            THEN /\ nSuccess' = nSuccess + 1
                 /\ rgbd' = [rgbd EXCEPT !.res = "ok"]
                 /\ pcRgbd' = "flag"
            ELSE /\ nSuccess' = nSuccess
                 /\ rgbd' = [rgbd EXCEPT !.res = "fail"]
                 /\ pcRgbd' = "ret"
    /\ UNCHANGED <<restVars, cellVars, rosViz_, odomVars, nBroadcast, travVars, mapVars, srvVars>>

\* Variant: the result of the tracking call is not tested.
RGBDCallback_track_untested ==
    /\ pcRgbd = "idle"
    /\ \E ok \in {b \in BOOLEAN : b => nSuccess < MaxTracks} :
         /\ nSuccess' = IF ok THEN nSuccess + 1 ELSE nSuccess
         /\ rgbd' = [rgbd EXCEPT !.res = IF ok THEN "ok" ELSE "fail"]
         /\ pcRgbd' = "flag"
    /\ UNCHANGED <<restVars, cellVars, isTracked_, rosViz_, odomVars, nBroadcast, travVars, mapVars, srvVars>>

\* A synchronized pair arrives; interface_->trackRGBDi(msgRGB, msgD, Tcw)
\* returns success or failure.  A success extends the engine's map.
RGBDCallback_track ==
    /\ pcRgbd = "idle"
    /\ \E ok \in {b \in BOOLEAN : b => nSuccess < MaxTracks} :
         IF ok
         THEN /\ nSuccess' = nSuccess + 1
              /\ rgbd' = [rgbd EXCEPT !.res = "ok"]
              /\ pcRgbd' = "flag"
         ELSE /\ nSuccess' = nSuccess
              /\ rgbd' = [rgbd EXCEPT !.res = "fail"]
              /\ pcRgbd' = "ret"
    /\ UNCHANGED <<restVars, cellVars, isTracked_, rosViz_, odomVars, nBroadcast, travVars, mapVars, srvVars>>

\* isTracked_ = true
RGBDCallback_flag ==
    /\ pcRgbd = "flag"
    /\ isTracked_' = TRUE
    /\ pcRgbd' = "readTranslation"
    /\ UNCHANGED <<restVars, cellVars, rosViz_, odomVars, rgbd, nSuccess, nBroadcast, travVars, mapVars, srvVars>>

\* tfBroadcaster_->sendTransform(tfMapOdom_): the broadcaster copies the
\* referenced transform, one component after the other, without the lock.
RGBDCallback_sendTransform_translation ==
    /\ pcRgbd = "readTranslation"
    /\ rgbd' = [rgbd EXCEPT !.tf.translation = tfMapOdom_.translation]
    /\ pcRgbd' = "readRotation"
    /\ UNCHANGED <<restVars, cellVars, isTracked_, rosViz_, odomVars, nSuccess, nBroadcast, travVars, mapVars, srvVars>>

\* Variant: the pose just computed is broadcast instead of the stored one.
RGBDCallback_sendTransform_Tcw ==
    /\ pcRgbd = "readRotation"
    /\ rgbd' = [rgbd EXCEPT !.tf = Tcw(nSuccess), !.sent = @ + 1]
    /\ nBroadcast' = nBroadcast + 1
    /\ pcRgbd' = IF rosViz_ THEN "viz" ELSE "ret"
    /\ UNCHANGED <<restVars, cellVars, isTracked_, rosViz_, odomVars, nSuccess, travVars, mapVars, srvVars>>

RGBDCallback_sendTransform_rotation ==
    /\ pcRgbd = "readRotation"
    /\ rgbd' = [rgbd EXCEPT !.tf.rotation = tfMapOdom_.rotation, !.sent = @ + 1]
    /\ nBroadcast' = nBroadcast + 1
    /\ pcRgbd' = IF rosViz_ THEN "viz" ELSE "ret"
    /\ UNCHANGED <<restVars, cellVars, isTracked_, rosViz_, odomVars, nSuccess, travVars, mapVars, srvVars>>

\* publishMapPointCloud(): interface_->getCurrentMapPoints(mapPCL); the
\* publish on map_points is commented out in the source.
publishMapPointCloud ==
    /\ pcRgbd = "viz"
    /\ rgbd' = [rgbd EXCEPT !.pclQueries = @ + 1]
    /\ pcRgbd' = "ret"
    /\ UNCHANGED <<restVars, cellVars, isTracked_, rosViz_, odomVars, nSuccess, nBroadcast, travVars, mapVars, srvVars>>

RGBDCallback_return ==
    /\ pcRgbd = "ret"
    /\ rgbd' = NoRgbd
    /\ pcRgbd' = "idle"
    /\ UNCHANGED <<restVars, cellVars, isTracked_, rosViz_, odomVars, nSuccess, nBroadcast, travVars, mapVars, srvVars>>

RGBDCallback ==
    \/ RGBDCallback_track
    \/ RGBDCallback_flag
    \/ RGBDCallback_sendTransform_translation
    \/ RGBDCallback_sendTransform_rotation
    \/ publishMapPointCloud
    \/ RGBDCallback_return

----------------------------------------------------------------------------
\* publishTraversabilityData (timer, 800 ms)

publishTraversabilityData_enter ==
    /\ pcTrav = "idle"
    /\ pcTrav' = "lock"
    /\ UNCHANGED <<restVars, cellVars, isTracked_, rosViz_, odomVars, rgbdVars, trav, mapVars, srvVars>>

\* std::lock_guard lock(latestTimeMutex_)
publishTraversabilityData_lock ==
    /\ pcTrav = "lock" /\ latestTimeMutex_ = "none"
    /\ latestTimeMutex_' = "trav"
    /\ pcTrav' = "query"
    /\ UNCHANGED <<restVars, latestTime_, tfMapOdom_, isTracked_, rosViz_, odomVars, rgbdVars, trav, mapVars, srvVars>>

\* auto map = interface_->getTraversabilityData()
publishTraversabilityData_query ==
    /\ pcTrav = "query"
    /\ trav' = [trav EXCEPT !.queried = TRUE,
                             !.first = getTraversabilityData(nSuccess).first,
                             !.second = getTraversabilityData(nSuccess).second]
    /\ pcTrav' = "stamp"
    /\ UNCHANGED <<restVars, cellVars, isTracked_, rosViz_, odomVars, rgbdVars, mapVars, srvVars>>

\* map.first.header.stamp = latestTime_ (with the origin offset and the
\* frame id, which are local).  seenTf records the transform the cell holds
\* at the instant the timestamp is read.
publishTraversabilityData_stamp ==
    /\ pcTrav = "stamp"
    /\ trav' = [trav EXCEPT !.stamp = latestTime_, !.seenTf = tfMapOdom_,
                             !.first = [origin |-> [x |-> trav.first.origin.x + robot_x_,
                                                    y |-> trav.first.origin.y + robot_y_],
                                        frame_id |-> global_frame_,
                                        stamp |-> latestTime_]]
    /\ pcTrav' = "publishGrid"
    /\ UNCHANGED <<restVars, cellVars, isTracked_, rosViz_, odomVars, rgbdVars, mapVars, srvVars>>

\* gridmapPub_->publish(map.first)
publishTraversabilityData_publishGrid ==
    /\ pcTrav = "publishGrid"
    /\ trav' = [trav EXCEPT !.gridPublished = @ + 1, !.outGrid = trav.first]
    /\ pcTrav' = "publishGridMap"
    /\ UNCHANGED <<restVars, cellVars, isTracked_, rosViz_, odomVars, rgbdVars, mapVars, srvVars>>

\* traversabilityPub_->publish(map.second)
publishTraversabilityData_publishGridMap ==
    /\ pcTrav = "publishGridMap"
    /\ trav' = [trav EXCEPT !.gridMapPublished = @ + 1, !.outGridMap = trav.second]
    /\ pcTrav' = "unlock"
    /\ UNCHANGED <<restVars, cellVars, isTracked_, rosViz_, odomVars, rgbdVars, mapVars, srvVars>>

\* return: the lock_guard releases the lock
publishTraversabilityData_return ==
    /\ pcTrav = "unlock"
    /\ latestTimeMutex_' = IF latestTimeMutex_ = "trav" THEN "none" ELSE latestTimeMutex_
    /\ trav' = NoTrav
    /\ pcTrav' = "idle"
    /\ UNCHANGED <<restVars, latestTime_, tfMapOdom_, isTracked_, rosViz_, odomVars, rgbdVars, mapVars, srvVars>>

publishTraversabilityData ==
    \/ publishTraversabilityData_enter
    \/ publishTraversabilityData_lock
    \/ publishTraversabilityData_query
    \/ publishTraversabilityData_stamp
    \/ publishTraversabilityData_publishGrid
    \/ publishTraversabilityData_publishGridMap
    \/ publishTraversabilityData_return

----------------------------------------------------------------------------
\* publishMapData (timer, 1 s)

\* Variant: the first flag is passed as false.
publishMapData_args_firstFalse == <<FALSE, FALSE, 0>>

\* Arguments of interface_->mapDataToMsg(mapDataMsg, true, false); the
\* keyframe argument is left out (no restriction).
publishMapData_args == <<TRUE, FALSE, 0>>

\* Variant: the tick does not test the flag.
publishMapData_check_ungated ==
    /\ pcMap = "idle"
    /\ mapTick' = [mapTick EXCEPT !.saw = isTracked_]
    /\ pcMap' = "query"
    /\ UNCHANGED <<restVars, cellVars, isTracked_, rosViz_, odomVars, rgbdVars, travVars, srvVars>>

\* if (isTracked_)
publishMapData_check ==
    /\ pcMap = "idle"
    /\ IF isTracked_
       THEN /\ mapTick' = [mapTick EXCEPT !.saw = TRUE]
            /\ pcMap' = "query"
       ELSE /\ mapTick' = mapTick
            /\ pcMap' = "ret"
    /\ UNCHANGED <<restVars, cellVars, isTracked_, rosViz_, odomVars, rgbdVars, travVars, srvVars>>

\* interface_->mapDataToMsg(mapDataMsg, true, false)
publishMapData_query ==
    /\ pcMap = "query"
    /\ mapTick' = [mapTick EXCEPT !.queries = @ + 1, !.args = publishMapData_args]
    /\ pcMap' = "publish"
    /\ UNCHANGED <<restVars, cellVars, isTracked_, rosViz_, odomVars, rgbdVars, travVars, srvVars>>

\* mapDataPub_->publish(mapDataMsg)
publishMapData_publish ==
    /\ pcMap = "publish"
    /\ mapTick' = [mapTick EXCEPT !.published = @ + 1]
    /\ pcMap' = "ret"
    /\ UNCHANGED <<restVars, cellVars, isTracked_, rosViz_, odomVars, rgbdVars, travVars, srvVars>>

publishMapData_return ==
    /\ pcMap = "ret"
    /\ mapTick' = NoTick
    /\ pcMap' = "idle"
    /\ UNCHANGED <<restVars, cellVars, isTracked_, rosViz_, odomVars, rgbdVars, travVars, srvVars>>

publishMapData ==
    \/ publishMapData_check
    \/ publishMapData_query
    \/ publishMapData_publish
    \/ publishMapData_return

----------------------------------------------------------------------------
\* getMapServer (service orb_slam3_get_map_data)

\* Variant: the first flag is passed as true.
getMapServer_args_firstTrue(tracked_points, kf_id_for_landmarks) ==
    <<TRUE, tracked_points, kf_id_for_landmarks>>

\* Variant: the keyframe restriction of the request is not forwarded.
getMapServer_args_noKf(tracked_points, kf_id_for_landmarks) ==
    <<FALSE, tracked_points, 0>>

\* Arguments of interface_->mapDataToMsg(mapDataMsg, false,
\* request->tracked_points, request->kf_id_for_landmarks).
getMapServer_args(tracked_points, kf_id_for_landmarks) ==
    <<FALSE, tracked_points, kf_id_for_landmarks>>

\* Variant: the handler takes the shared-cell lock for its query.
getMapServer_query_locked ==
    /\ pcSrv = "idle" /\ latestTimeMutex_ = "none"
    /\ latestTimeMutex_' = "srv"
    /\ \E tp \in BOOLEAN, kf \in 0..MaxKf :
         LET a == getMapServer_args(tp, kf) IN
         srv' = [srv EXCEPT !.tracked_points = tp, !.kf_id_for_landmarks = kf,
                            !.queries = @ + 1, !.args = a,
                            !.mapDataMsg = mapDataToMsg(nSuccess, a[1], a[2], a[3])]
    /\ pcSrv' = "respond"
    /\ UNCHANGED <<restVars, latestTime_, tfMapOdom_, isTracked_, rosViz_, odomVars, rgbdVars, travVars, mapVars>>

\* A request arrives; the handler queries the engine.
getMapServer_query ==
    /\ pcSrv = "idle"
    /\ \E tp \in BOOLEAN, kf \in 0..MaxKf :
         LET a == getMapServer_args(tp, kf) IN
         srv' = [srv EXCEPT !.tracked_points = tp, !.kf_id_for_landmarks = kf,
                            !.queries = @ + 1, !.args = a,
                            !.mapDataMsg = mapDataToMsg(nSuccess, a[1], a[2], a[3])]
    /\ pcSrv' = "respond"
    /\ UNCHANGED <<restVars, cellVars, isTracked_, rosViz_, odomVars, rgbdVars, travVars, mapVars>>

\* response->data = mapDataMsg
getMapServer_respond ==
    /\ pcSrv = "respond"
    /\ srv' = [srv EXCEPT !.response = srv.mapDataMsg]
    /\ pcSrv' = "ret"
    /\ UNCHANGED <<restVars, cellVars, isTracked_, rosViz_, odomVars, rgbdVars, travVars, mapVars>>

getMapServer_return ==
    /\ pcSrv = "ret"
    /\ srv' = NoSrv
    /\ pcSrv' = "idle"
    /\ UNCHANGED <<restVars, cellVars, isTracked_, rosViz_, odomVars, rgbdVars, travVars, mapVars>>

getMapServer ==
    \/ getMapServer_query
    \/ getMapServer_respond
    \/ getMapServer_return

----------------------------------------------------------------------------
\* ImuCallback and LidarCallback

nodeVars == <<cellVars, isTracked_, rosViz_, odomVars, rgbdVars, travVars, mapVars, srvVars>>

\* An IMU message arrives: interface_->handleIMU(msgIMU)
ImuCallback_handleIMU ==
    /\ pcImu = "idle"
    /\ imu' = [imu EXCEPT !.calls = @ + 1]
    /\ pcImu' = "ret"
    /\ UNCHANGED <<nodeVars, pcLidar, lidar, teardownVars, syncVars>>

ImuCallback_return ==
    /\ pcImu = "ret"
    /\ imu' = NoImu
    /\ pcImu' = "idle"
    /\ UNCHANGED <<nodeVars, pcLidar, lidar, teardownVars, syncVars>>

ImuCallback ==
    \/ ImuCallback_handleIMU
    \/ ImuCallback_return

\* Variant: the cloud is tagged with the latest odometry stamp.
LidarCallback_handleLidarPCL_latestTime ==
    /\ pcLidar = "idle"
    /\ \E stamp \in 1..MaxStamp :
         lidar' = [msgStamp |-> stamp, calls |-> 1, engineStamp |-> latestTime_]
    /\ pcLidar' = "ret"
    /\ UNCHANGED <<nodeVars, pcImu, imu, teardownVars, syncVars>>

\* A point cloud arrives:
\* interface_->handleLidarPCL(msgLidar.header.stamp, msgLidar)
LidarCallback_handleLidarPCL ==
    /\ pcLidar = "idle"
    /\ \E stamp \in 1..MaxStamp :
         lidar' = [msgStamp |-> stamp, calls |-> lidar.calls + 1, engineStamp |-> stamp]
    /\ pcLidar' = "ret"
    /\ UNCHANGED <<nodeVars, pcImu, imu, teardownVars, syncVars>>

LidarCallback_return ==
    /\ pcLidar = "ret"
    /\ lidar' = NoLidar
    /\ pcLidar' = "idle"
    /\ UNCHANGED <<nodeVars, pcImu, imu, teardownVars, syncVars>>

LidarCallback ==
    \/ LidarCallback_handleLidarPCL
    \/ LidarCallback_return

\* The two ingestion callbacks beside the callbacks that use the shared
\* cell and its lock.
IngestNext ==
    \/ ImuCallback
    \/ LidarCallback
    \/ OdomCallback
    \/ RGBDCallback
    \/ publishTraversabilityData

SpecIngest == Init /\ [][IngestNext]_vars

----------------------------------------------------------------------------
\* syncApproximate_: the approximate-time synchronizer of rgbSub_ and
\* depthSub_.  Its matching rule is library code; it is modelled from the
\* contract of the Time Synchronizer, with the parameters the constructor
\* passes.  A message is its header stamp, in hundredths of a second.

\* Variant: the policy is built with a queue size of 11.
queue_size_eleven == 10 + 1

\* approximate_sync_policy(10)
queue_size == 10

\* Variant: the callback is registered twice.
registeredCallbacks_twice == 1 + 1

\* registerCallback(&RgbdSlamNode::RGBDCallback, this), once
registeredCallbacks == 1

\* The k-th RGB and depth messages: both cameras run at 10 Hz, the depth
\* stamps 0.03 s after the RGB stamps.
RgbStamp(k) == 10 * (k - 1)
DepthStamp(k) == 10 * (k - 1) + 3

Skew(r, d) == IF r >= d THEN r - d ELSE d - r

\* The constructor sets no maximum interval on the policy: every skew is
\* accepted.
WithinTolerance(r, d) == TRUE

Range(q) == {q[i] : i \in 1..Len(q)}

After(q, t) == LET newer(x) == x > t IN SelectSeq(q, newer)

\* The pair to emit: the nearest stamps among the buffered messages.
Candidates(rq, dq) == {p \in Range(rq) \X Range(dq) : WithinTolerance(p[1], p[2])}

BestPair(rq, dq) ==
    CHOOSE p \in Candidates(rq, dq) :
        \A o \in Candidates(rq, dq) :
            \/ Skew(p[1], p[2]) < Skew(o[1], o[2])
            \/ /\ Skew(p[1], p[2]) = Skew(o[1], o[2])
               /\ p[1] + p[2] <= o[1] + o[2]

\* A channel's buffer after one more message: the oldest goes when the
\* queue size is exceeded.
Buffered(q, t) ==
    LET all == Append(q, t) IN
    IF Len(all) > queue_size THEN Tail(all) ELSE all

\* The synchronizer's state after the buffers became rq and dq: a pair is
\* emitted as soon as there is one, RGBDCallback is invoked with it, and the
\* pair and everything older leave the buffers.
Synchronize(rq, dq, evicted, nLost) ==
    LET base == [sync EXCEPT !.dropped = @ + evicted, !.lost = @ + nLost] IN
    IF Candidates(rq, dq) = {}
    THEN /\ rgbQ' = rq
         /\ depthQ' = dq
         /\ sync' = base
    ELSE LET p == BestPair(rq, dq) IN
         /\ rgbQ' = After(rq, p[1])
         /\ depthQ' = After(dq, p[2])
         /\ sync' = [base EXCEPT !.emitted = @ + 1,
                                 !.callbacks = @ + registeredCallbacks,
                                 !.lastRgb = p[1], !.lastDepth = p[2]]

\* The messages that can arrive next on a channel whose last message was
\* number seq: the next one, or the one after it when the next one is lost.
Arrivals(seq) ==
    {k \in (seq + 1)..(seq + 2) : k <= MaxMsgs /\ sync.lost + (k - seq - 1) <= MaxLost}

RgbArrives ==
    /\ \E k \in Arrivals(rgbSeq) :
         /\ rgbSeq' = k
         /\ Synchronize(Buffered(rgbQ, RgbStamp(k)), depthQ,
                        IF Len(rgbQ) = Len(Buffered(rgbQ, RgbStamp(k))) THEN 1 ELSE 0,
                        k - rgbSeq - 1)
    /\ UNCHANGED <<nodeVars, ingestVars, teardownVars, depthSeq>>

DepthArrives ==
    /\ \E k \in Arrivals(depthSeq) :
         /\ depthSeq' = k
         /\ Synchronize(rgbQ, Buffered(depthQ, DepthStamp(k)),
                        IF Len(depthQ) = Len(Buffered(depthQ, DepthStamp(k))) THEN 1 ELSE 0,
                        k - depthSeq - 1)
    /\ UNCHANGED <<nodeVars, ingestVars, teardownVars, rgbSeq>>

SyncNext ==
    \/ RgbArrives
    \/ DepthArrives

SpecSync == Init /\ [][SyncNext]_vars

----------------------------------------------------------------------------
\* ~RgbdSlamNode.  pcDtor names the statement the destructor executes next
\* ("none": the destructor has not begun; "done": it has returned and the
\* remaining members have been destroyed).

DtorOrder == <<"none", "rgbSub_", "depthSub_", "imuSub_", "odomSub_", "interface_", "log", "done">>

DtorPos(pc) == CHOOSE i \in 1..Len(DtorOrder) : DtorOrder[i] = pc

\* A member is held until the statement that resets it has executed.
Held(member) == DtorPos(pcDtor) <= DtorPos(member)

rgbSubAlive == Held("rgbSub_")
depthSubAlive == Held("depthSub_")
imuSubAlive == Held("imuSub_")
odomSubAlive == Held("odomSub_")
interfaceAlive == Held("interface_")
\* lidarSub_, the two timers, the service and syncApproximate_ are reset by
\* no statement of the destructor: they live until it has returned.
membersAlive == pcDtor # "done"

\* A call through the released interface_ ends the process.
Running == nullCall = "none"

Destructor_step(from, to) ==
    /\ Running
    /\ pcDtor = from
    /\ pcDtor' = to
    /\ UNCHANGED <<nodeVars, ingestVars, syncVars, nullCall>>

Destructor_enter == Destructor_step("none", "rgbSub_")
Destructor_rgbSub_reset == Destructor_step("rgbSub_", "depthSub_")
Destructor_depthSub_reset == Destructor_step("depthSub_", "imuSub_")
Destructor_imuSub_reset == Destructor_step("imuSub_", "odomSub_")
Destructor_odomSub_reset == Destructor_step("odomSub_", "interface_")
Destructor_interface_reset == Destructor_step("interface_", "log")
Destructor_log == Destructor_step("log", "done")

Destructor ==
    \/ Destructor_enter
    \/ Destructor_rgbSub_reset
    \/ Destructor_depthSub_reset
    \/ Destructor_imuSub_reset
    \/ Destructor_odomSub_reset
    \/ Destructor_interface_reset
    \/ Destructor_log

\* A callback calls through interface_ after interface_.reset(): the call
\* goes through a null pointer.
CallReleased(callback) ==
    /\ Running
    /\ ~interfaceAlive
    /\ nullCall' = callback
    /\ UNCHANGED <<nodeVars, ingestVars, syncVars, pcDtor>>

\* The synchronizer delivers a pair only when a message arrives on one of
\* its two subscriptions.
Teardown_RGBDCallback ==
    /\ Running
    /\ pcRgbd = "idle" => rgbSubAlive \/ depthSubAlive
    /\ RGBDCallback

Teardown_ImuCallback ==
    /\ Running
    /\ pcImu = "idle" => imuSubAlive
    /\ ImuCallback

Teardown_LidarCallback ==
    /\ Running
    /\ pcLidar = "idle" => membersAlive /\ interfaceAlive
    /\ LidarCallback

Teardown_LidarCallback_released ==
    /\ pcLidar = "idle" /\ membersAlive
    /\ CallReleased("LidarCallback")

Teardown_publishMapData ==
    /\ Running
    /\ pcMap = "idle" => membersAlive
    /\ pcMap = "query" => interfaceAlive
    /\ publishMapData

Teardown_publishMapData_released ==
    /\ pcMap = "query"
    /\ CallReleased("publishMapData")

Teardown_getMapServer ==
    /\ Running
    /\ pcSrv = "idle" => membersAlive /\ interfaceAlive
    /\ getMapServer

Teardown_getMapServer_released ==
    /\ pcSrv = "idle" /\ membersAlive
    /\ CallReleased("getMapServer")

\* The destructor beside the callbacks that can still be dispatched.
TeardownNext ==
    \/ Destructor
    \/ Teardown_RGBDCallback
    \/ Teardown_ImuCallback
    \/ Teardown_LidarCallback
    \/ Teardown_LidarCallback_released
    \/ Teardown_publishMapData
    \/ Teardown_publishMapData_released
    \/ Teardown_getMapServer
    \/ Teardown_getMapServer_released

SpecTeardown == Init /\ [][TeardownNext]_vars

----------------------------------------------------------------------------
\* Specification: the executor runs any enabled step of any callback.
Next ==
    \/ OdomCallback
    \/ RGBDCallback
    \/ publishTraversabilityData
    \/ publishMapData
    \/ getMapServer

Spec == Init /\ [][Next]_vars

----------------------------------------------------------------------------
\* Positions at which a callback is inside its accesses to the shared cell.
OdomInCell == pcOdom \in {"stamp", "translation", "rotation", "unlock"}
TravInCell == pcTrav \in {"query", "stamp", "publishGrid", "publishGridMap", "unlock"}

\* C1: OdomCallback and publishTraversabilityData are never inside their
\* accesses to (latestTime_, tfMapOdom_) at the same time, OdomCallback
\* writes the timestamp and the transform while holding the lock, and the
\* timestamp the publisher reads belongs to the same odometry write as the
\* transform the cell holds at that instant.
C1_NoTornTimestamp ==
    /\ ~(OdomInCell /\ TravInCell)
    /\ (OdomInCell => latestTimeMutex_ = "odom")
    /\ (pcTrav \in {"publishGrid", "publishGridMap", "unlock"}
          => trav.seenTf = getMapToOdomTF(trav.stamp))

\* The publisher has read the stamp of an odometry write while the next
\* OdomCallback waits for the lock.
C1_Witness ==
    /\ pcTrav = "publishGrid" /\ trav.stamp >= 1
    /\ pcOdom = "lock" /\ odomSeq > trav.stamp

\* C2: the transform RGBDCallback hands to the broadcaster is always a
\* complete transform of one odometry write (or the complete initial one),
\* never a mix of two writes.
C2_BroadcastComplete ==
    rgbd.sent >= 1 => rgbd.tf.translation = rgbd.tf.rotation

\* C3: the traversability publisher does not hold the lock while its engine
\* query or one of its two publish calls is in progress.
C3_LockOnlyForTimestamp ==
    pcTrav \in {"query", "publishGrid", "publishGridMap"} => latestTimeMutex_ # "trav"

\* C4: isTracked_ is false initially, becomes true only by the assignment in
\* an RGBDCallback whose tracking call succeeded, and never goes back to
\* false.
C4_TrackedSetOnce ==
    /\ isTracked_ = FALSE
    /\ [][ /\ (isTracked_ => isTracked_')
           /\ (isTracked_' # isTracked_ => pcRgbd = "flag" /\ rgbd.res = "ok") ]_vars

\* The flag is set and a later tracking call has failed.
C4_Witness ==
    isTracked_ /\ rgbd.res = "fail" /\ pcRgbd = "ret" /\ nSuccess >= 1

\* C5: while no tracking call has succeeded a map-data tick makes no engine
\* query and publishes nothing; a tick makes its query and its publish
\* exactly when the flag is set at the instant the tick starts, and a
\* finished tick has then published exactly once.
C5_MapDataGated ==
    /\ [](nSuccess = 0 => mapTick.queries = 0 /\ mapTick.published = 0)
    /\ [](pcMap = "ret" => /\ mapTick.published = (IF mapTick.saw THEN 1 ELSE 0)
                           /\ mapTick.queries = mapTick.published)
    /\ [][pcMap = "idle" /\ pcMap' # "idle" => mapTick'.saw = isTracked_]_vars

\* A tick that started after the first successful track has published once.
C5_Witness ==
    pcMap = "ret" /\ mapTick.saw /\ mapTick.published = 1 /\ odomSeq >= 1

\* C6: an RGBDCallback whose tracking call failed broadcasts nothing, makes
\* no point-cloud query or publish, and none of its steps changes the flag,
\* the stored transform, the stored timestamp or the broadcast channel.
C6_FailedTrackNoEffect ==
    /\ [](rgbd.res = "fail" => /\ pcRgbd = "ret"
                               /\ rgbd.sent = 0
                               /\ rgbd.pclQueries = 0
                               /\ rgbd.pclPublished = 0)
    /\ [][ (pcRgbd' # pcRgbd /\ (rgbd.res = "fail" \/ rgbd'.res = "fail"))
             => UNCHANGED <<isTracked_, tfMapOdom_, latestTime_, nBroadcast, nSuccess>> ]_vars

\* A tracking call has failed after an odometry write and a successful track.
C6_Witness ==
    rgbd.res = "fail" /\ pcRgbd = "ret" /\ odomSeq >= 1 /\ isTracked_

\* C7: a successful RGBDCallback broadcasts exactly once, the broadcasts
\* number as many as the successful tracks, and each component of a
\* broadcast transform is one the odometry path stored in tfMapOdom_ (or
\* the cell's initial one), never the pose Tcw of the tracking call.
C7_BroadcastStoredTransform ==
    /\ nBroadcast <= nSuccess
    /\ (pcRgbd = "idle" => nBroadcast = nSuccess)
    /\ (rgbd.res = "ok" /\ pcRgbd \in {"viz", "ret"} => rgbd.sent = 1)
    /\ rgbd.sent <= 1
    /\ (rgbd.sent = 1 => /\ rgbd.tf.translation \in 0..odomSeq
                         /\ rgbd.tf.rotation \in 0..odomSeq)

\* The second successful callback has broadcast a transform written by the
\* odometry path.
C7_Witness ==
    /\ pcRgbd = "ret" /\ rgbd.sent = 1 /\ nBroadcast = 2
    /\ rgbd.tf = getMapToOdomTF(1)

\* C8: a finished RGBDCallback has emitted one point-cloud message on
\* map_points when it tracked successfully with visualization enabled, and
\* none otherwise.
C8_PointCloudEmitted ==
    pcRgbd = "ret" =>
        rgbd.pclPublished = (IF rgbd.res = "ok" /\ rosViz_ THEN 1 ELSE 0)

C11_QueryPureRead ==
    /\ [][pcSrv' # pcSrv =>
            UNCHANGED <<latestTimeMutex_, latestTime_, tfMapOdom_, isTracked_>>]_vars
    /\ [](ENABLED getMapServer)
    /\ [](pcSrv = "ret" => srv.queries = 1 /\ srv.response = srv.mapDataMsg)

\* A request has been answered before tracking was established, while
\* OdomCallback holds the lock in the middle of its write.
C11_Witness ==
    /\ pcSrv = "ret" /\ ~isTracked_
    /\ latestTimeMutex_ = "odom" /\ pcOdom = "rotation"

\* C16: a traversability tick that has published both outputs has published
\* each once, from its one engine query; both carry the global frame id and
\* the latest timestamp stored by the odometry path, and the occupancy
\* grid's origin is the engine's origin shifted by (robot_x, robot_y).
C16_BothOutputsStamped ==
    pcTrav = "unlock" =>
        /\ trav.queried /\ trav.gridPublished = 1 /\ trav.gridMapPublished = 1
        /\ trav.outGrid.frame_id = global_frame_ /\ trav.outGrid.stamp = latestTime_
        /\ trav.outGridMap.frame_id = global_frame_ /\ trav.outGridMap.stamp = latestTime_
        /\ \E n \in 0..nSuccess :
             /\ trav.outGrid.origin.x = getTraversabilityData(n).first.origin.x + robot_x_
             /\ trav.outGrid.origin.y = getTraversabilityData(n).first.origin.y + robot_y_

\* The landmark set the engine returns, in its present state, for the
\* arguments a caller passed.
LandmarksFor(args) == mapDataToMsg(nSuccess, args[1], args[2], args[3]).landmarks

\* An unrestricted request and a periodic query are both in flight.
UnrestrictedAndPeriodic ==
    /\ srv.queries = 1 /\ ~srv.tracked_points /\ srv.kf_id_for_landmarks = 0
    /\ mapTick.queries = 1

C18_BroadcastWasStored ==
    rgbd.sent = 1 => \E k \in 1..odomSeq : rgbd.tf = getMapToOdomTF(k)

----------------------------------------------------------------------------
\* Scheduling assumed by C19: a callback that can take a step eventually
\* takes it (engine and publish calls return), and the lock is granted
\* fairly to a callback that keeps asking for it.
OdomCallback_body ==
    \/ OdomCallback_stamp
    \/ OdomCallback_translation
    \/ OdomCallback_rotation
    \/ OdomCallback_return

publishTraversabilityData_body ==
    \/ publishTraversabilityData_query
    \/ publishTraversabilityData_stamp
    \/ publishTraversabilityData_publishGrid
    \/ publishTraversabilityData_publishGridMap
    \/ publishTraversabilityData_return

\* getMapServer is left out of this specification: it never touches the lock
\* (C11) and shares no variable with the callbacks that do.
LockNext ==
    \/ OdomCallback
    \/ RGBDCallback
    \/ publishTraversabilityData
    \/ publishMapData

SpecFair ==
    /\ Init /\ [][LockNext]_vars
    /\ WF_vars(OdomCallback_body)
    /\ SF_vars(OdomCallback_lock)
    /\ WF_vars(publishTraversabilityData_body)
    /\ SF_vars(publishTraversabilityData_lock)

\* C19: the lock is only ever taken when it is free, by OdomCallback or
\* publishTraversabilityData, and is held only while its holder is inside
\* its body (it is released on return); under the scheduling above every
\* started OdomCallback and every started publishTraversabilityData
\* completes.
C19_NoDeadlock ==
    /\ [](latestTimeMutex_ \in {"none", "odom", "trav"})
    /\ [](latestTimeMutex_ = "odom" => OdomInCell)
    /\ [](latestTimeMutex_ = "trav" => TravInCell)
    /\ [][latestTimeMutex_' # latestTimeMutex_ /\ latestTimeMutex_' # "none"
            => latestTimeMutex_ = "none"]_vars
    /\ (pcOdom # "idle" ~> pcOdom = "idle")
    /\ (pcTrav # "idle" ~> pcTrav = "idle")

\* OdomCallback waits for the lock while the traversability publisher holds
\* it during a publish call.
C19_Witness ==
    pcOdom = "lock" /\ latestTimeMutex_ = "trav" /\ pcTrav = "publishGridMap"

\* C20: a finished ImuCallback has made one engine call, a finished
\* LidarCallback one engine call tagged with its message's own header stamp;
\* no step of either changes the stored transform, the stored timestamp,
\* the lock, the tracking flag or anything another callback publishes; and
\* both can take their next step in every state, whoever holds the lock.
C20_IngestForwardOnly ==
    /\ [](pcImu = "ret" => imu.calls = 1)
    /\ [](pcLidar = "ret" => lidar.calls = 1 /\ lidar.engineStamp = lidar.msgStamp)
    /\ [][pcImu' # pcImu \/ pcLidar' # pcLidar => UNCHANGED nodeVars]_vars
    /\ [](ENABLED ImuCallback /\ ENABLED LidarCallback)

\* Both callbacks have made their engine call while OdomCallback holds the
\* lock in the middle of its write, the lidar stamp differing from the
\* odometry stamp.
C20_Witness ==
    /\ pcImu = "ret" /\ pcLidar = "ret" /\ lidar.msgStamp # latestTime_
    /\ latestTimeMutex_ = "odom" /\ pcOdom = "rotation"

\* C15: the destructor releases the four sensor subscriptions before
\* interface_, and no callback calls into the engine once interface_ has
\* been released.
C15_NoCallAfterRelease ==
    /\ ~interfaceAlive =>
         ~rgbSubAlive /\ ~depthSubAlive /\ ~imuSubAlive /\ ~odomSubAlive
    /\ nullCall = "none"

\* C12: RGBDCallback has been invoked exactly once per emitted pair; every
\* emission is one pair, made of one buffered (or just arrived) message of
\* each channel, both strictly newer than the messages of every earlier
\* pair; and no buffered message is as old as an emitted one, so no pair is
\* emitted twice and no message appears in two pairs.
C12_OncePerPair ==
    /\ [](sync.callbacks = sync.emitted)
    /\ [](/\ \A r \in Range(rgbQ) : r > sync.lastRgb
          /\ \A d \in Range(depthQ) : d > sync.lastDepth)
    /\ [][sync'.emitted # sync.emitted =>
            /\ sync'.emitted = sync.emitted + 1
            /\ sync'.lastRgb \in Range(rgbQ) \cup {RgbStamp(rgbSeq')}
            /\ sync'.lastDepth \in Range(depthQ) \cup {DepthStamp(depthSeq')}
            /\ sync'.lastRgb > sync.lastRgb
            /\ sync'.lastDepth > sync.lastDepth]_vars

\* Several pairs have been emitted, messages were lost, and messages newer
\* than the last pair are buffered.
C12_Witness ==
    /\ sync.emitted >= 3 /\ sync.callbacks = sync.emitted
    /\ sync.lost >= 1
    /\ Len(rgbQ) >= 2

\* C13: every emitted pair has a skew of at most the tolerance, 0.05 s (with
\* RGB at 0.00, 0.10, ... and depth at 0.03, 0.13, ...: never (0.00, 0.13)).
C13_SkewWithinTolerance ==
    sync.emitted > 0 => Skew(sync.lastRgb, sync.lastDepth) <= 5

\* C14: each channel buffers at most 10 messages; an arrival on a full
\* channel drops that channel's oldest message and keeps the new one; and
\* while the other channel is empty a channel accepts every arrival,
\* buffers it and emits no pair.
C14_BoundedBuffers ==
    /\ [](Len(rgbQ) <= 10 /\ Len(depthQ) <= 10)
    /\ [][rgbSeq' # rgbSeq /\ depthQ = <<>> =>
            /\ rgbQ' = (IF Len(rgbQ) = 10 THEN Tail(rgbQ) ELSE rgbQ) \o <<RgbStamp(rgbSeq')>>
            /\ sync'.dropped = sync.dropped + (IF Len(rgbQ) = 10 THEN 1 ELSE 0)
            /\ sync'.emitted = sync.emitted]_vars
    /\ [][depthSeq' # depthSeq /\ rgbQ = <<>> =>
            /\ depthQ' = (IF Len(depthQ) = 10 THEN Tail(depthQ) ELSE depthQ) \o <<DepthStamp(depthSeq')>>
            /\ sync'.dropped = sync.dropped + (IF Len(depthQ) = 10 THEN 1 ELSE 0)
            /\ sync'.emitted = sync.emitted]_vars
    /\ [](rgbSeq < MaxMsgs => ENABLED RgbArrives)
    /\ [](depthSeq < MaxMsgs => ENABLED DepthArrives)

\* The depth channel delivered, then stalled; the RGB channel is full and
\* has dropped its oldest message.
C14_Witness ==
    /\ Len(rgbQ) = 10 /\ sync.dropped >= 1 /\ Head(rgbQ) > 0
    /\ depthQ = <<>> /\ depthSeq >= 1 /\ sync.emitted >= 1
====
